---- MODULE Spec2Model ----
(***************************************************************************)
(* A model of lib/transformer.js of webidl2js: the Transformer class that  *)
(* collects IDL sources, reads them, builds the type registry in two       *)
(* passes (_parse) and writes one file per non-imported interface and      *)
(* dictionary (_writeFiles).                                               *)
(*                                                                         *)
(* JavaScript Maps are modelled as sequences of [k, v] records in          *)
(* insertion order, `undefined` as the string Undefined, paths as strings. *)
(***************************************************************************)
EXTENDS Integers, Sequences, FiniteSets, TLC

VARIABLES
    options,    \* this.options: [suppressErrors, utilPath]
    sources,    \* this.sources: sequence of [idlPath, impl]
    modules,    \* this.modules: Map moduleName -> package.json path
    pc,         \* position of the generate coroutine
    tasks,      \* the promises of _collectSources, one per source / module
    files,      \* the files array of _collectSources
    reads,      \* the promises of _readFiles, one per file
    contents,   \* the zipped array _readFiles returns
    ctx,        \* this.ctx: [interfaces, dictionaries, typedefs, customTypes]
    cursor,     \* index of the entry the running loop of _writeFiles is at
    written,    \* the fs.writeFile calls that succeeded, in order
    failure,    \* why generate rejected ("none" while it has not)
    lastCall    \* the last call of the API and, for addSource/addModule, its outcome

vars == <<options, sources, modules, pc, tasks, files, reads, contents, ctx,
          cursor, written, failure, lastCall>>

----------------------------------------------------------------------------
(* Bounds of the model *)

\* instructions over all documents handed to _parse
MaxInstr == 3
\* documents handed to _parse
MaxDocs == 2
\* calls of addSource and addModule before generate
MaxInputs == 2

----------------------------------------------------------------------------
(* Values *)

Undefined == "undefined"

OutputDir == "out"

\* an instruction record as webidl2 returns it
Instr(type, partial, name, members, extAttrs, target, impl) ==
    [type |-> type, partial |-> partial, name |-> name, members |-> members,
     extAttrs |-> extAttrs, target |-> target, implements |-> impl]

IFoo == Instr("interface", FALSE, "Foo", <<"x">>, <<"Exposed">>, Undefined, Undefined)
PIFoo == Instr("interface", TRUE, "Foo", <<"y">>, <<"Unforgeable">>, Undefined, Undefined)
DFoo == Instr("dictionary", FALSE, "Foo", <<"d">>, <<"Legacy">>, Undefined, Undefined)
PDFoo == Instr("dictionary", TRUE, "Foo", <<"e">>, <<"Extra">>, Undefined, Undefined)
TFoo == Instr("typedef", FALSE, "Foo", <<>>, <<>>, Undefined, Undefined)
FooImplementsBar == Instr("implements", FALSE, Undefined, <<>>, <<>>, "Foo", "Bar")
EKind == Instr("enum", FALSE, "Kind", <<>>, <<>>, Undefined, Undefined)
IBar == Instr("interface", FALSE, "Bar", <<"z">>, <<>>, Undefined, Undefined)
IUtils == Instr("interface", FALSE, "utils", <<"u">>, <<>>, Undefined, Undefined)
DOpts == Instr("dictionary", FALSE, "Opts", <<"o">>, <<>>, Undefined, Undefined)
TAlias == Instr("typedef", FALSE, "Alias", <<>>, <<>>, Undefined, Undefined)

\* the instructions the documents of the model builder runs are made of
ParseInstrs == {IFoo, PIFoo, DFoo, PDFoo, TFoo, FooImplementsBar, EKind, IBar}

\* second partials of Foo, of two members each
PIFoo2 == Instr("interface", TRUE, "Foo", <<"p", "q">>, <<"Global", "Replaceable">>, Undefined, Undefined)
PDFoo2 == Instr("dictionary", TRUE, "Foo", <<"f", "g">>, <<"More", "Most">>, Undefined, Undefined)

\* the instructions the documents of the runs on several partials are made of
PartialInstrs == {IFoo, PIFoo, PIFoo2, DFoo, PDFoo, PDFoo2}

\* the instructions the documents of the emission runs are made of
EmitInstrs == {IFoo, DFoo, IUtils, TAlias}

Names == {"Foo", "Bar", "Kind", "utils", "Alias", "Opts"}

ModelErrors == {"Error", "TypeError"}

----------------------------------------------------------------------------
(* JavaScript Map: insertion-ordered, set() on a present key keeps its place *)

MapHas(m, k) == \E i \in 1..Len(m) : m[i].k = k

MapGet(m, k) == m[CHOOSE i \in 1..Len(m) : m[i].k = k].v

MapSet(m, k, v) ==
    IF MapHas(m, k)
    THEN [i \in 1..Len(m) |-> IF m[i].k = k THEN [k |-> k, v |-> v] ELSE m[i]]
    ELSE Append(m, [k |-> k, v |-> v])

MapKeys(m) == {m[i].k : i \in 1..Len(m)}

----------------------------------------------------------------------------
(* Paths *)

PathJoin(a, b) == a \o "/" \o b

PathResolve(a, b) == a \o "/" \o b

----------------------------------------------------------------------------
(* The registry (lib/context.js) and its entries (lib/constructs) *)

\* Context.initialize: four fresh, empty maps
ContextInitialize ==
    [interfaces |-> <<>>, dictionaries |-> <<>>, typedefs |-> <<>>,
     customTypes |-> <<>>]

\* new Interface(ctx, idl, opts): keeps the instruction itself as idl
Interface(instruction, opts) ==
    [name |-> instruction.name, idl |-> instruction, implDir |-> opts.implDir,
     path |-> opts.path, imported |-> opts.path # Undefined, mixins |-> <<>>]

\* new Dictionary(ctx, idl, opts)
Dictionary(instruction, opts) ==
    [name |-> instruction.name, idl |-> instruction, path |-> opts.path,
     imported |-> opts.path # Undefined]

\* new Typedef(ctx, idl)
Typedef(instruction) == [name |-> instruction.name, idl |-> instruction]

\* Interface.prototype.implements(source): records the mixin
Implements(obj, source) == [obj EXCEPT !.mixins = Append(@, source)]

----------------------------------------------------------------------------
(* _parse *)

\* a well-formed text, which declares decls
Text(decls) == [valid |-> TRUE, decls |-> decls]

\* webidl.parse(text): the instruction list of a well-formed text
WebidlParse(text) == text.decls

\* contents.map(...) of _parse
Parsed(cs) ==
    [i \in 1..Len(cs) |->
        [idl |-> WebidlParse(cs[i].idlContent), impl |-> cs[i].impl,
         genPath |-> cs[i].genPath]]

\* the (file, instruction) pairs in the order of the two nested for loops
RECURSIVE Instructions(_)
Instructions(parsed) ==
    IF parsed = <<>> THEN <<>>
    ELSE [j \in 1..Len(Head(parsed).idl) |->
              [file |-> Head(parsed), instruction |-> Head(parsed).idl[j]]]
         \o Instructions(Tail(parsed))

Returned(c) == [ctx |-> c, thrown |-> "none"]

Thrown(c, e) == [ctx |-> c, thrown |-> e]

\* file.impl && path.resolve(outputDir, file.impl)
ImplDirOf(file) ==
    IF file.impl = Undefined THEN Undefined ELSE PathResolve(OutputDir, file.impl)

\* file.genPath && path.join(file.genPath, `${instruction.name}.js`)
PathOf(file, instruction) ==
    IF file.genPath = Undefined THEN Undefined
    ELSE PathJoin(file.genPath, instruction.name \o ".js")

\* oldMembers.push(...instruction.members); extAttrs.push(...instruction.extAttrs)
PushPartialPrepending(obj, instruction) ==
    [obj EXCEPT !.idl.members = instruction.members \o @,
                !.idl.extAttrs = instruction.extAttrs \o @]

PushPartial(obj, instruction) ==
    [obj EXCEPT !.idl.members = @ \o instruction.members,
                !.idl.extAttrs = @ \o instruction.extAttrs]

\* this.options.suppressErrors && !map.has(name): the instruction is skipped
SkipsMissingAlways(suppressErrors, m, name) == ~MapHas(m, name)

SkipsMissing(suppressErrors, m, name) == suppressErrors /\ ~MapHas(m, name)

\* break under the suppressErrors guard: the instruction leaves the registry
\* as it found it
SkippedRegistering(c, instruction) ==
    CASE instruction.type = "interface" ->
            [c EXCEPT !.interfaces =
                        MapSet(@, instruction.name,
                               Interface(instruction, [implDir |-> Undefined,
                                                       path |-> Undefined])),
                      !.customTypes = MapSet(@, instruction.name, "interface")]
      [] instruction.type = "dictionary" ->
            [c EXCEPT !.dictionaries =
                        MapSet(@, instruction.name,
                               Dictionary(instruction, [path |-> Undefined])),
                      !.customTypes = MapSet(@, instruction.name, "dictionary")]
      [] OTHER -> c

Skipped(c, instruction) == c

\* oldMembers.push(...instruction.members); extAttrs.push(...instruction.extAttrs)
\* on the entry that map.get(instruction.name) returns
MergePartialIntoInterfaces(c, map, instruction) ==
    LET to == IF MapHas(c.interfaces, instruction.name)
              THEN "interfaces" ELSE map
    IN [c EXCEPT ![to] =
            MapSet(@, instruction.name,
                   PushPartial(MapGet(@, instruction.name), instruction))]

MergePartial(c, map, instruction) ==
    [c EXCEPT ![map] =
        MapSet(@, instruction.name,
               PushPartial(MapGet(@, instruction.name), instruction))]

\* the body of the second pair of loops: one instruction of pass 2;
\* map.get(name) of an absent name is undefined, and reading it throws
Pass2Instr(c, instruction, suppressErrors) ==
    CASE instruction.type = "interface" ->
            IF ~instruction.partial THEN Returned(c)
            ELSE IF SkipsMissing(suppressErrors, c.interfaces, instruction.name)
            THEN Returned(Skipped(c, instruction))
            ELSE IF ~MapHas(c.interfaces, instruction.name)
            THEN Thrown(c, "TypeError")
            ELSE Returned(MergePartial(c, "interfaces", instruction))
      [] instruction.type = "dictionary" ->
            IF ~instruction.partial THEN Returned(c)
            ELSE IF SkipsMissing(suppressErrors, c.dictionaries, instruction.name)
            THEN Returned(Skipped(c, instruction))
            ELSE IF ~MapHas(c.dictionaries, instruction.name)
            THEN Thrown(c, "TypeError")
            ELSE Returned(MergePartial(c, "dictionaries", instruction))
      [] instruction.type = "implements" ->
            IF SkipsMissing(suppressErrors, c.interfaces, instruction.target)
            THEN Returned(Skipped(c, instruction))
            ELSE IF ~MapHas(c.interfaces, instruction.target)
            THEN Thrown(c, "TypeError")
            ELSE Returned([c EXCEPT !.interfaces =
                    MapSet(@, instruction.target,
                           Implements(MapGet(@, instruction.target),
                                      instruction.implements))])
      [] OTHER -> Returned(c)

\* case "implements" of pass 1: handled later
ImplementsCaseEager(c, instruction, suppressErrors) ==
    Pass2Instr(c, instruction, suppressErrors)

ImplementsCase(c, instruction, suppressErrors) == Returned(c)

\* case "typedef" of pass 1
TypedefCaseIndexed(c, instruction) ==
    LET obj == Typedef(instruction)
    IN Returned([c EXCEPT !.typedefs = MapSet(@, obj.name, obj),
                          !.customTypes = MapSet(@, obj.name, "typedef")])

TypedefCaseChecked(c, instruction) ==
    LET obj == Typedef(instruction)
    IN IF MapHas(c.customTypes, obj.name) THEN Thrown(c, "Error")
       ELSE Returned([c EXCEPT !.typedefs = MapSet(@, obj.name, obj)])

TypedefCase(c, instruction) ==
    LET obj == Typedef(instruction)
    IN Returned([c EXCEPT !.typedefs = MapSet(@, obj.name, obj)])

\* the default case of pass 1
DefaultCaseThrowing(c, suppressErrors) == Thrown(c, "Error")

DefaultCase(c, suppressErrors) ==
    IF ~suppressErrors THEN Thrown(c, "Error") ELSE Returned(c)

\* the body of the first pair of loops: one instruction of pass 1
Pass1Instr(c, file, instruction, suppressErrors) ==
    CASE instruction.type = "interface" ->
            IF instruction.partial THEN Returned(c)
            ELSE LET obj == Interface(instruction,
                                      [implDir |-> ImplDirOf(file),
                                       path |-> PathOf(file, instruction)])
                 IN Returned([c EXCEPT
                        !.interfaces = MapSet(@, obj.name, obj),
                        !.customTypes = MapSet(@, obj.name, "interface")])
      [] instruction.type = "implements" ->
            ImplementsCase(c, instruction, suppressErrors)
      [] instruction.type = "dictionary" ->
            IF instruction.partial THEN Returned(c)
            ELSE LET obj == Dictionary(instruction,
                                       [path |-> PathOf(file, instruction)])
                 IN Returned([c EXCEPT
                        !.dictionaries = MapSet(@, obj.name, obj),
                        !.customTypes = MapSet(@, obj.name, "dictionary")])
      [] instruction.type = "typedef" -> TypedefCase(c, instruction)
      [] OTHER -> DefaultCase(c, suppressErrors)

\* the first pair of loops, from the i-th pair on; a throw ends it
RECURSIVE Pass1Loop(_, _, _, _)
Pass1Loop(c, work, i, suppressErrors) ==
    IF i > Len(work) THEN Returned(c)
    ELSE LET r == Pass1Instr(c, work[i].file, work[i].instruction, suppressErrors)
         IN IF r.thrown # "none" THEN r
            ELSE Pass1Loop(r.ctx, work, i + 1, suppressErrors)

\* the second pair of loops, from the i-th pair on; a throw ends it
RECURSIVE Pass2LoopBackwards(_, _, _, _)
Pass2LoopBackwards(c, work, i, suppressErrors) ==
    IF i > Len(work) THEN Returned(c)
    ELSE LET r == Pass2Instr(c, work[Len(work) + 1 - i].instruction,
                             suppressErrors)
         IN IF r.thrown # "none" THEN r
            ELSE Pass2LoopBackwards(r.ctx, work, i + 1, suppressErrors)

RECURSIVE Pass2Loop(_, _, _, _)
Pass2Loop(c, work, i, suppressErrors) ==
    IF i > Len(work) THEN Returned(c)
    ELSE LET r == Pass2Instr(c, work[i].instruction, suppressErrors)
         IN IF r.thrown # "none" THEN r
            ELSE Pass2Loop(r.ctx, work, i + 1, suppressErrors)

----------------------------------------------------------------------------
(* _parse as two steps of the generate coroutine: it runs synchronously *)

\* where generate goes when the given part of _parse ends with `thrown`
AfterPassContinuing(thrown, next) == next

AfterPass(thrown, next) == IF thrown = "none" THEN next ELSE "rejected"

\* lines 111-159: webidl.parse of every document, then pass 1
Pass1 ==
    /\ pc = "pass1"
    /\ IF \E i \in 1..Len(contents) : ~contents[i].idlContent.valid
       THEN /\ pc' = AfterPass("SyntaxError", "pass2")
            /\ failure' = "SyntaxError"
            /\ ctx' = ctx
       ELSE LET r == Pass1Loop(ctx, Instructions(Parsed(contents)), 1,
                               options.suppressErrors)
            IN /\ ctx' = r.ctx
               /\ pc' = AfterPass(r.thrown, "pass2")
               /\ failure' = r.thrown
    /\ UNCHANGED <<lastCall, options, sources, modules, tasks, files, reads, contents,
                   cursor, written>>

\* lines 161-200: pass 2; _writeFiles starts when it returns
Pass2 ==
    /\ pc = "pass2"
    /\ LET r == Pass2Loop(ctx, Instructions(Parsed(contents)), 1,
                          options.suppressErrors)
       IN /\ ctx' = r.ctx
          /\ pc' = AfterPass(r.thrown, "readUtils")
          /\ failure' = r.thrown
    /\ UNCHANGED <<lastCall, options, sources, modules, tasks, files, reads, contents,
                   cursor, written>>

----------------------------------------------------------------------------
(* _writeFiles *)

\* the first index >= from of an entry the loop does not skip (obj.imported)
NextEmittedAll(m, from) == from

RECURSIVE NextEmitted(_, _)
NextEmitted(m, from) ==
    IF from > Len(m) THEN from
    ELSE IF m[from].v.imported THEN NextEmitted(m, from + 1)
    ELSE from

\* the loop over dictionaries.values(), from index `from`
DictionariesFrom(c, from) ==
    LET i == NextEmitted(c.dictionaries, from)
    IN IF i <= Len(c.dictionaries) THEN [pc |-> "dictionaries", cursor |-> i]
       ELSE [pc |-> "done", cursor |-> 0]

\* the loop over interfaces.values(), from index `from`
InterfacesFrom(c, from) ==
    LET i == NextEmitted(c.interfaces, from)
    IN IF i <= Len(c.interfaces) THEN [pc |-> "interfaces", cursor |-> i]
       ELSE DictionariesFrom(c, 1)

\* path.join(outputDir, obj.name + ".js")
OutputPath(obj) == PathJoin(OutputDir, obj.name \o ".js")

Reject(why) ==
    /\ pc' = "rejected"
    /\ failure' = why

\* line 204: yield fs.readFile(output/utils.js)
ReadUtils ==
    /\ pc = "readUtils"
    /\ \E ok \in BOOLEAN :
          IF ok THEN pc' = "writeUtils" /\ failure' = failure
          ELSE Reject("readUtils")
    /\ UNCHANGED <<lastCall, options, sources, modules, tasks, files, reads, contents,
                   ctx, cursor, written>>

\* line 205: yield fs.writeFile(this.options.utilPath, utilsText)
WriteUtils ==
    /\ pc = "writeUtils"
    /\ \E ok \in BOOLEAN :
          IF ok
          THEN /\ written' = Append(written, [path |-> options.utilPath,
                                              kind |-> "utils", name |-> Undefined])
               /\ pc' = InterfacesFrom(ctx, 1).pc
               /\ cursor' = InterfacesFrom(ctx, 1).cursor
               /\ failure' = failure
          ELSE Reject("write") /\ UNCHANGED <<written, cursor>>
    /\ UNCHANGED <<lastCall, options, sources, modules, tasks, files, reads, contents, ctx>>

\* lines 209-239: one iteration that writes, with the skipped ones before the
\* next; toString, path.relative and _prettify may throw, writeFile may fail
WriteInterface ==
    /\ pc = "interfaces"
    /\ \E outcome \in {"ok", "render", "write"} :
          IF outcome = "ok"
          THEN LET obj == ctx.interfaces[cursor].v
               IN /\ written' = Append(written, [path |-> OutputPath(obj),
                                                 kind |-> "interface",
                                                 name |-> obj.name])
                  /\ pc' = InterfacesFrom(ctx, cursor + 1).pc
                  /\ cursor' = InterfacesFrom(ctx, cursor + 1).cursor
                  /\ failure' = failure
          ELSE Reject(outcome) /\ UNCHANGED <<written, cursor>>
    /\ UNCHANGED <<lastCall, options, sources, modules, tasks, files, reads, contents, ctx>>

\* lines 241-264: the same for dictionaries
WriteDictionary ==
    /\ pc = "dictionaries"
    /\ \E outcome \in {"ok", "render", "write"} :
          IF outcome = "ok"
          THEN LET obj == ctx.dictionaries[cursor].v
               IN /\ written' = Append(written, [path |-> OutputPath(obj),
                                                 kind |-> "dictionary",
                                                 name |-> obj.name])
                  /\ pc' = DictionariesFrom(ctx, cursor + 1).pc
                  /\ cursor' = DictionariesFrom(ctx, cursor + 1).cursor
                  /\ failure' = failure
          ELSE Reject(outcome) /\ UNCHANGED <<written, cursor>>
    /\ UNCHANGED <<lastCall, options, sources, modules, tasks, files, reads, contents, ctx>>

----------------------------------------------------------------------------
(* generate's prologue *)

\* lines 274-276: the default of options.utilPath
UtilPathOf(utilPath) ==
    IF utilPath = Undefined THEN PathJoin(OutputDir, "utils.js") ELSE utilPath

----------------------------------------------------------------------------
(* The world of the generate runs: a small file system *)

\* a value that is not a string
NotString == "<not a string>"

SourcePaths == {"a.idl", "idl", "README.md"}

ModuleNames == {"mod", "plain"}

\* stat.isDirectory()
IsDirectory(p) == p = "idl"

\* a directory entry; its name is base \o ext
Entry(base, ext) == [base |-> base, ext |-> ext]

\* fs.readdir(p)
FolderContents(p) ==
    IF p = "idl" THEN <<Entry("b", ".idl"), Entry("notes", ".txt")>> ELSE <<>>

\* file.endsWith(".idl")
EndsWithAnything(file) == TRUE

EndsWithIdl(file) == file.ext = ".idl"

\* require.resolve(path.posix.join(moduleName, "package.json"))
RequireResolve(moduleName) ==
    PathJoin(PathJoin("node_modules", moduleName), "package.json")

\* path.dirname(packageJSON)
Dirname(packageJSON) ==
    CHOOSE d \in {PathJoin("node_modules", n) : n \in ModuleNames} :
        PathJoin(d, "package.json") = packageJSON

\* JSON.parse of the descriptor at packageJSON
PackageJson(packageJSON) ==
    IF packageJSON = RequireResolve("mod")
    THEN [hasWebidl2js |-> TRUE,
          webidl2js |-> [interface |-> "gen", idl |-> <<"m.idl">>]]
    ELSE [hasWebidl2js |-> FALSE,
          webidl2js |-> [interface |-> Undefined, idl |-> <<>>]]

\* a text webidl.parse rejects
NotIdl == [valid |-> FALSE, decls |-> <<>>]

\* the text of the file at p
FileText(p) ==
    CASE p = "a.idl" -> Text(<<IFoo, DOpts>>)
      [] p = "idl/b.idl" -> Text(<<PIFoo>>)
      [] p = "node_modules/mod/m.idl" -> Text(<<IBar, FooImplementsBar>>)
      [] OTHER -> NotIdl

----------------------------------------------------------------------------
(* addSource, addModule *)

\* a call of the API: its name, its arguments and how it ended
Call(op, args, outcome) == [op |-> op, args |-> args, outcome |-> outcome]

\* typeof v !== "string"
IsStringAlways(v) == TRUE

IsString(v) == v # NotString

\* lines 28-37
AddSource ==
    /\ pc = "idle"
    /\ Len(sources) + Len(modules) < MaxInputs
    /\ \E idl \in SourcePaths \cup {NotString}, impl \in {"impl", NotString} :
          IF ~IsString(idl) \/ ~IsString(impl)
          THEN /\ lastCall' = Call("addSource", <<idl, impl>>, "TypeError")
               /\ sources' = sources
          ELSE /\ sources' = Append(sources, [idlPath |-> idl, impl |-> impl])
               /\ lastCall' = Call("addSource", <<idl, impl>>, "returned")
    /\ UNCHANGED <<options, modules, pc, tasks, files, reads, contents, ctx,
                   cursor, written, failure>>

\* lines 39-48; packageJSONPath is given or defaults to the resolved one
AddModule ==
    /\ pc = "idle"
    /\ Len(sources) + Len(modules) < MaxInputs
    /\ \E moduleName \in ModuleNames \cup {NotString},
          given \in {Undefined, NotString, RequireResolve("mod")} :
          LET packageJSONPath ==
                  IF given # Undefined THEN given
                  ELSE IF IsString(moduleName)
                  THEN RequireResolve(moduleName) ELSE NotString
          IN IF ~IsString(moduleName) \/ ~IsString(packageJSONPath)
             THEN /\ lastCall' = Call("addModule", <<moduleName, given>>,
                                      "TypeError")
                  /\ modules' = modules
             ELSE /\ modules' = MapSet(modules, moduleName, packageJSONPath)
                  /\ lastCall' = Call("addModule", <<moduleName, given>>,
                                      "returned")
    /\ UNCHANGED <<options, sources, pc, tasks, files, reads, contents, ctx,
                   cursor, written, failure>>

----------------------------------------------------------------------------
(* generate, _collectSources, _readFiles *)

\* the coroutines started by the two loops of _collectSources
Promises ==
    [i \in 1..Len(sources) |->
        [kind |-> "source", src |-> sources[i], modName |-> Undefined,
         packageJSON |-> Undefined, st |-> "stat"]]
    \o [i \in 1..Len(modules) |->
        [kind |-> "module", src |-> [idlPath |-> Undefined, impl |-> Undefined],
         modName |-> modules[i].k, packageJSON |-> modules[i].v,
         st |-> "readFile"]]

\* Promise.all(promises) resolves: every promise has resolved
AnyResolved(ps) == ps = <<>> \/ \E i \in 1..Len(ps) : ps[i].st = "done"

AllResolved(ps) == \A i \in 1..Len(ps) : ps[i].st = "done"

\* Promise.all rejects when generate waits on it, and only then
RejectIfWaiting(phase, why) ==
    IF pc = phase THEN Reject(why) ELSE UNCHANGED <<pc, failure>>

\* lines 273-280: the default utilPath, ctx.initialize and the start of
\* every coroutine of _collectSources
Generate ==
    /\ pc = "idle"
    /\ options' = [options EXCEPT !.utilPath = UtilPathOf(@)]
    /\ ctx' = ContextInitialize
    /\ tasks' = Promises
    /\ files' = <<>>
    /\ pc' = "collect"
    /\ lastCall' = Call("generate", <<>>, "returned")
    /\ UNCHANGED <<sources, modules, reads, contents, cursor, written, failure>>

\* lines 56-57, 67-72: fs.stat of a source settles
Stat(t) ==
    /\ tasks[t].st = "stat"
    /\ \E ok \in BOOLEAN :
          IF ~ok
          THEN /\ tasks' = [tasks EXCEPT ![t].st = "failed"]
               /\ files' = files
               /\ RejectIfWaiting("collect", "stat")
          ELSE IF IsDirectory(tasks[t].src.idlPath)
          THEN /\ tasks' = [tasks EXCEPT ![t].st = "readdir"]
               /\ UNCHANGED <<files, pc, failure>>
          ELSE /\ tasks' = [tasks EXCEPT ![t].st = "done"]
               /\ files' = Append(files, [idlPath |-> tasks[t].src.idlPath,
                                          impl |-> tasks[t].src.impl,
                                          genPath |-> Undefined])
               /\ UNCHANGED <<pc, failure>>
    /\ UNCHANGED <<lastCall, options, sources, modules, reads, contents, ctx,
                   cursor, written>>

\* the entries pushed for a directory, lines 59-66
FolderFiles(src) ==
    LET matching == SelectSeq(FolderContents(src.idlPath), EndsWithIdl)
    IN [i \in 1..Len(matching) |->
           [idlPath |-> PathJoin(src.idlPath, matching[i].base \o matching[i].ext),
            impl |-> src.impl, genPath |-> Undefined]]

\* lines 58-66: fs.readdir of a directory source settles
Readdir(t) ==
    /\ tasks[t].st = "readdir"
    /\ \E ok \in BOOLEAN :
          IF ~ok
          THEN /\ tasks' = [tasks EXCEPT ![t].st = "failed"]
               /\ files' = files
               /\ RejectIfWaiting("collect", "readdir")
          ELSE /\ tasks' = [tasks EXCEPT ![t].st = "done"]
               /\ files' = files \o FolderFiles(tasks[t].src)
               /\ UNCHANGED <<pc, failure>>
    /\ UNCHANGED <<lastCall, options, sources, modules, reads, contents, ctx,
                   cursor, written>>

\* the entries pushed for a module, lines 79-89
ModuleFilesBareGenPath(modName, packageJSON) ==
    LET pkg == PackageJson(packageJSON)
    IN IF ~pkg.hasWebidl2js THEN <<>>
       ELSE [i \in 1..Len(pkg.webidl2js.idl) |->
                [idlPath |-> PathResolve(Dirname(packageJSON), pkg.webidl2js.idl[i]),
                 impl |-> Undefined,
                 genPath |-> pkg.webidl2js.interface]]

ModuleFiles(modName, packageJSON) ==
    LET pkg == PackageJson(packageJSON)
    IN IF ~pkg.hasWebidl2js THEN <<>>
       ELSE [i \in 1..Len(pkg.webidl2js.idl) |->
                [idlPath |-> PathResolve(Dirname(packageJSON), pkg.webidl2js.idl[i]),
                 impl |-> Undefined,
                 genPath |-> PathJoin(modName, pkg.webidl2js.interface)]]

\* lines 78-89: fs.readFile of a descriptor settles (JSON.parse may throw)
ReadDescriptor(t) ==
    /\ tasks[t].st = "readFile"
    /\ \E ok \in BOOLEAN :
          IF ~ok
          THEN /\ tasks' = [tasks EXCEPT ![t].st = "failed"]
               /\ files' = files
               /\ RejectIfWaiting("collect", "descriptor")
          ELSE /\ tasks' = [tasks EXCEPT ![t].st = "done"]
               /\ files' = files \o ModuleFiles(tasks[t].modName,
                                                 tasks[t].packageJSON)
               /\ UNCHANGED <<pc, failure>>
    /\ UNCHANGED <<lastCall, options, sources, modules, reads, contents, ctx,
                   cursor, written>>

\* lines 93-94, 99: Promise.all(promises) resolves, _collectSources returns
\* and _readFiles starts one read per file
CollectSourcesReturns ==
    /\ pc = "collect"
    /\ AllResolved(tasks)
    /\ reads' = [i \in 1..Len(files) |->
                    [st |-> "pending", text |-> NotIdl, at |-> 0]]
    /\ pc' = "read"
    /\ UNCHANGED <<lastCall, options, sources, modules, tasks, files, contents,
                   ctx, cursor, written, failure>>

\* how many of the promises ps have been fulfilled so far
Fulfilled(ps) == Cardinality({j \in 1..Len(ps) : ps[j].st = "done"})

\* line 99: fs.readFile of files[i] settles; `at` is its rank among the
\* reads fulfilled so far
ReadFile(i) ==
    /\ reads[i].st = "pending"
    /\ \E ok \in BOOLEAN :
          IF ~ok
          THEN /\ reads' = [reads EXCEPT ![i].st = "failed"]
               /\ RejectIfWaiting("read", "read")
          ELSE /\ reads' = [reads EXCEPT
                               ![i] = [st |-> "done",
                                       text |-> FileText(files[i].idlPath),
                                       at |-> Fulfilled(reads) + 1]]
               /\ UNCHANGED <<pc, failure>>
    /\ UNCHANGED <<lastCall, options, sources, modules, tasks, files, contents,
                   ctx, cursor, written>>

\* line 99: the value of Promise.all(promises), in the order of the promises
ValuesAsFulfilled(ps) ==
    [i \in 1..Len(ps) |-> ps[CHOOSE j \in 1..Len(ps) : ps[j].at = i].text]

Values(ps) == [i \in 1..Len(ps) |-> ps[i].text]

\* lines 100-106: the zip of the contents with the files
Zipped(fileContents, fs) ==
    [i \in 1..Len(fs) |->
        [idlContent |-> fileContents[i], impl |-> fs[i].impl,
         genPath |-> fs[i].genPath]]

\* lines 99-107, 281-282: Promise.all of the reads resolves, _readFiles
\* returns and generate calls _parse
ReadFilesReturns ==
    /\ pc = "read"
    /\ AllResolved(reads)
    /\ contents' = Zipped(Values(reads), files)
    /\ pc' = "pass1"
    /\ UNCHANGED <<lastCall, options, sources, modules, tasks, files, reads,
                   ctx, cursor, written, failure>>

----------------------------------------------------------------------------
(* The model builder and the emission driver on given documents:           *)
(* _parse(outputDir, contents) and _writeFiles(outputDir) as generate      *)
(* calls them, on every list of documents within the bounds.               *)

\* lists of n instructions of U
InstrLists(U, n) == [1..n -> U]

\* the ways to cut n instructions into k non-empty documents: d[j] is the
\* document of the j-th instruction
Cuts(n, k) ==
    {d \in [1..n -> 1..k] :
        /\ \A j \in 1..(n - 1) : d[j] <= d[j + 1] /\ d[j + 1] <= d[j] + 1
        /\ n > 0 => d[1] = 1 /\ d[n] = k}

\* the j-th document of the cut d of the instruction list s
RECURSIVE DocOf(_, _, _)
DocOf(s, d, j) ==
    IF s = <<>> THEN <<>>
    ELSE (IF d[1] = j THEN <<Head(s)>> ELSE <<>>)
         \o DocOf(Tail(s), [i \in 1..(Len(s) - 1) |-> d[i + 1]], j)

\* a document of a source (addSource: impl) or of a module (genPath)
Content(decls, fromModule) ==
    [idlContent |-> Text(decls),
     impl |-> IF fromModule THEN Undefined ELSE "impl",
     genPath |-> IF fromModule THEN "mod/gen" ELSE Undefined]

ParseReady(cs, opts) ==
    /\ options = [suppressErrors |-> opts.suppressErrors,
                  utilPath |-> UtilPathOf(opts.utilPath)]
    /\ sources = <<>>
    /\ modules = <<>>
    /\ pc = "pass1"
    /\ tasks = <<>>
    /\ files = <<>>
    /\ reads = <<>>
    /\ contents = cs
    /\ ctx = ContextInitialize
    /\ cursor = 0
    /\ written = <<>>
    /\ failure = "none"
    /\ lastCall = Call("generate", <<>>, "returned")

\* documents of sources, made of ParseInstrs, strict or relaxed
Init ==
    \E n \in 0..MaxInstr, k \in 0..MaxDocs, suppress \in BOOLEAN :
      \E s \in InstrLists(ParseInstrs, n), d \in Cuts(n, k) :
        /\ (n = 0) = (k = 0)
        /\ ParseReady([j \in 1..k |-> Content(DocOf(s, d, j), FALSE)],
                      [suppressErrors |-> suppress, utilPath |-> Undefined])

Next ==
    \/ Pass1
    \/ Pass2
    \/ ReadUtils
    \/ WriteUtils
    \/ WriteInterface
    \/ WriteDictionary

Spec == Init /\ [][Next]_vars

\* documents of sources and of modules, made of EmitInstrs, with the default
\* and with a given utilPath
InitEmit ==
    \E n \in 0..MaxInstr, k \in 0..MaxDocs,
       utilPath \in {Undefined, "out/shared.js"} :
      \E s \in InstrLists(EmitInstrs, n), d \in Cuts(n, k),
         fromModule \in [1..k -> BOOLEAN] :
        /\ (n = 0) = (k = 0)
        /\ ParseReady([j \in 1..k |-> Content(DocOf(s, d, j), fromModule[j])],
                      [suppressErrors |-> FALSE, utilPath |-> utilPath])

SpecEmit == InitEmit /\ [][Next]_vars

\* documents of sources, made of PartialInstrs, strict or relaxed
InitPartials ==
    \E n \in 0..MaxInstr, k \in 0..MaxDocs, suppress \in BOOLEAN :
      \E s \in InstrLists(PartialInstrs, n), d \in Cuts(n, k) :
        /\ (n = 0) = (k = 0)
        /\ ParseReady([j \in 1..k |-> Content(DocOf(s, d, j), FALSE)],
                      [suppressErrors |-> suppress, utilPath |-> Undefined])

SpecPartials == InitPartials /\ [][Next]_vars

----------------------------------------------------------------------------
(* generate on the file system above, from a new Transformer *)

InitGen ==
    /\ \E suppress \in BOOLEAN :
          options = [suppressErrors |-> suppress, utilPath |-> Undefined]
    /\ sources = <<>>
    /\ modules = <<>>
    /\ pc = "idle"
    /\ tasks = <<>>
    /\ files = <<>>
    /\ reads = <<>>
    /\ contents = <<>>
    /\ ctx = ContextInitialize
    /\ cursor = 0
    /\ written = <<>>
    /\ failure = "none"
    /\ lastCall = Call("new", <<>>, "returned")

NextGen ==
    \/ AddSource
    \/ AddModule
    \/ Generate
    \/ \E t \in 1..Len(tasks) : Stat(t)
    \/ \E t \in 1..Len(tasks) : Readdir(t)
    \/ \E t \in 1..Len(tasks) : ReadDescriptor(t)
    \/ CollectSourcesReturns
    \/ \E i \in 1..Len(reads) : ReadFile(i)
    \/ ReadFilesReturns
    \/ Pass1
    \/ Pass2
    \/ ReadUtils
    \/ WriteUtils
    \/ WriteInterface
    \/ WriteDictionary

SpecGen == InitGen /\ [][NextGen]_vars

----------------------------------------------------------------------------
(* Vocabulary of the properties *)

\* the positions (document, index) of the instructions handed to _parse
Positions ==
    UNION {{<<i, j>> : j \in 1..Len(contents[i].idlContent.decls)} :
              i \in 1..Len(contents)}

InstrAt(p) == WebidlParse(contents[p[1]].idlContent)[p[2]]

IsFull(ins, type) == ins.type = type /\ ~ins.partial

IsPartial(ins, type) == ins.type = type /\ ins.partial

\* some document declares the full definition `name` of the given type
Declared(type, name) ==
    \E p \in Positions : IsFull(InstrAt(p), type) /\ InstrAt(p).name = name

KnownTypes == {"interface", "dictionary", "typedef", "implements"}

\* the three classes of model errors, read off the documents
UnknownKind(ins) == ins.type \notin KnownTypes

UnmatchedPartial(ins) ==
    /\ ins.type \in {"interface", "dictionary"}
    /\ ins.partial
    /\ ~Declared(ins.type, ins.name)

UnknownTarget(ins) == ins.type = "implements" /\ ~Declared("interface", ins.target)

Offending(ins) == UnknownKind(ins) \/ UnmatchedPartial(ins) \/ UnknownTarget(ins)

Strict == ~options.suppressErrors

\* _parse returned
ParseReturned ==
    \/ pc \in {"readUtils", "writeUtils", "interfaces", "dictionaries", "done"}
    \/ pc = "rejected" /\ failure \in {"readUtils", "write", "render"}

\* _parse is over: it returned or threw
ParseEnded ==
    \/ ParseReturned
    \/ pc = "rejected" /\ failure \in {"SyntaxError", "Error", "TypeError"}

MembersOf(m, name) == MapGet(m, name).idl.members

ExtAttrsOf(m, name) == MapGet(m, name).idl.extAttrs

----------------------------------------------------------------------------
(* C1 *)

\* document i holds the only full interface `name`, at f, and another
\* document j the only partial interface `name`, at q
FullAndPartialApart(f, q) ==
    /\ f[1] # q[1]
    /\ IsFull(InstrAt(f), "interface")
    /\ IsPartial(InstrAt(q), "interface")
    /\ InstrAt(q).name = InstrAt(f).name
    /\ \A r \in Positions \ {f, q} :
          InstrAt(r).type = "interface" => InstrAt(r).name # InstrAt(f).name

\* C1: in strict mode, when one document holds the full interface N and
\* another a partial interface N, in either processing order, the merge
\* raises no error (no instruction being in error otherwise) and leaves N with
\* the members and extended attributes of the full declaration followed by
\* the partial's.
C1_PartialMergeOrderIndependent ==
    \A f \in Positions, q \in Positions :
        Strict /\ FullAndPartialApart(f, q) =>
            /\ (ParseEnded /\ \A r \in Positions : ~Offending(InstrAt(r)))
                   => ParseReturned
            /\ ParseReturned =>
                   /\ MapHas(ctx.interfaces, InstrAt(f).name)
                   /\ MembersOf(ctx.interfaces, InstrAt(f).name)
                         = InstrAt(f).members \o InstrAt(q).members
                   /\ ExtAttrsOf(ctx.interfaces, InstrAt(f).name)
                         = InstrAt(f).extAttrs \o InstrAt(q).extAttrs

\* the partial is processed before the full declaration and is merged
C1_Witness ==
    /\ Strict
    /\ ParseReturned
    /\ {<<1, 1>>, <<2, 1>>} \subseteq Positions
    /\ FullAndPartialApart(<<2, 1>>, <<1, 1>>)
    /\ MembersOf(ctx.interfaces, "Foo") = <<"x", "y">>

----------------------------------------------------------------------------
(* C2 *)

KindOf(name) ==
    IF MapHas(ctx.customTypes, name) THEN MapGet(ctx.customTypes, name)
    ELSE Undefined

\* C2: after _parse, every name is a key of at most one of interfaces,
\* dictionaries and typedefs, and customTypes says "interface" exactly for
\* the keys of interfaces and "dictionary" exactly for those of dictionaries.
C2_KindExclusive ==
    ParseReturned =>
        \A n \in Names :
            /\ Cardinality({m \in {"interfaces", "dictionaries", "typedefs"} :
                               MapHas(ctx[m], n)}) <= 1
            /\ (KindOf(n) = "interface") = MapHas(ctx.interfaces, n)
            /\ (KindOf(n) = "dictionary") = MapHas(ctx.dictionaries, n)

----------------------------------------------------------------------------
(* C3 *)

\* C3: after _parse, the keys of customTypes are exactly the names of the
\* non-partial interface and dictionary instructions of the documents.
C3_CustomTypesExact ==
    ParseReturned =>
        MapKeys(ctx.customTypes) =
            {InstrAt(p).name : p \in {r \in Positions :
                \/ IsFull(InstrAt(r), "interface")
                \/ IsFull(InstrAt(r), "dictionary")}}

\* a typedef and an unmatched partial next to one full interface
C3_Witness ==
    /\ ParseReturned
    /\ \E p \in Positions : InstrAt(p) = TFoo
    /\ \E p \in Positions : InstrAt(p) = PIFoo
    /\ \E p \in Positions : InstrAt(p) = IBar
    /\ MapKeys(ctx.customTypes) = {"Bar"}

----------------------------------------------------------------------------
(* C4 *)

\* C4: in strict mode _parse raises, and nothing is emitted, when a document
\* holds an instruction of an unknown kind, a partial without a full
\* definition of its kind, or an implements whose target is no interface.
C4_StrictRaises ==
    (Strict /\ ParseEnded /\ \E p \in Positions : Offending(InstrAt(p))) =>
        /\ pc = "rejected"
        /\ failure \in ModelErrors
        /\ written = <<>>

\* a partial dictionary whose name is registered, but as an interface
C4_Witness ==
    /\ Strict
    /\ failure = "TypeError"
    /\ \E p \in Positions : InstrAt(p) = PDFoo
    /\ MapHas(ctx.interfaces, "Foo")
    /\ \A p \in Positions : Offending(InstrAt(p)) => InstrAt(p) = PDFoo

----------------------------------------------------------------------------
(* C5 *)

\* the documents without their offending instructions
WithoutOffending ==
    [i \in 1..Len(contents) |->
        [contents[i] EXCEPT !.idlContent.decls =
            SelectSeq(@, LAMBDA ins : ~Offending(ins))]]

\* _parse on the documents cs, from an empty registry
ParseOf(cs, suppressErrors) ==
    LET work == Instructions(Parsed(cs))
        r1 == Pass1Loop(ContextInitialize, work, 1, suppressErrors)
    IN IF r1.thrown # "none" THEN r1
       ELSE Pass2Loop(r1.ctx, work, 1, suppressErrors)

\* C5: in relaxed mode _parse raises no model error, and its registry is the
\* one _parse builds from the documents without their offending
\* instructions, relaxed or strict, which then raises nothing either.
C5_RelaxedOmitsOffending ==
    (~Strict /\ ParseEnded) =>
        /\ ParseReturned
        /\ LET docs == WithoutOffending
           IN \A mode \in BOOLEAN :
                 LET r == ParseOf(docs, mode)
                 IN r.thrown = "none" /\ r.ctx = ctx

\* relaxed, with an offending instruction dropped next to ones that are kept
C5_Witness ==
    /\ ~Strict
    /\ ParseReturned
    /\ \E p \in Positions : Offending(InstrAt(p))
    /\ \E p \in Positions : ~Offending(InstrAt(p))
    /\ WithoutOffending # contents
    /\ ctx # ContextInitialize

----------------------------------------------------------------------------
(* C6 *)

\* the only implements instruction of target T is at q, and the only full
\* interface T at f, in another document
TargetAndImplementsApart(f, q) ==
    /\ f[1] # q[1]
    /\ IsFull(InstrAt(f), "interface")
    /\ InstrAt(q).type = "implements"
    /\ InstrAt(q).target = InstrAt(f).name
    /\ \A r \in Positions \ {f, q} :
          /\ IsFull(InstrAt(r), "interface") => InstrAt(r).name # InstrAt(f).name
          /\ InstrAt(r).type = "implements" => InstrAt(r).target # InstrAt(f).name

\* C6: in strict mode an implements instruction whose target is declared in
\* another document resolves without error in both processing orders, and
\* the target's entry records the same mixin in both.
C6_ImplementsAcrossDocuments ==
    \A f \in Positions, q \in Positions :
        Strict /\ TargetAndImplementsApart(f, q) =>
            /\ (ParseEnded /\ \A r \in Positions : ~Offending(InstrAt(r)))
                   => ParseReturned
            /\ ParseReturned =>
                   /\ MapHas(ctx.interfaces, InstrAt(q).target)
                   /\ MapGet(ctx.interfaces, InstrAt(q).target).mixins
                         = <<InstrAt(q).implements>>

\* the implements instruction is processed before its target is declared
C6_Witness ==
    /\ Strict
    /\ ParseReturned
    /\ {<<1, 1>>, <<2, 1>>} \subseteq Positions
    /\ TargetAndImplementsApart(<<2, 1>>, <<1, 1>>)
    /\ MapGet(ctx.interfaces, "Foo").mixins = <<"Bar">>

----------------------------------------------------------------------------
(* C7 *)

\* C7: within one build no two writes of _writeFiles target the same path.
C7_DistinctOutputPaths ==
    \A i \in 1..Len(written), j \in 1..Len(written) :
        i # j => written[i].path # written[j].path

----------------------------------------------------------------------------
(* C10 *)

TypeWrites == SelectSeq(written, LAMBDA w : w.kind # "utils")

\* the entries of a map of the registry that are not imported
OwnEntries(m) == {m[i].v : i \in {j \in 1..Len(m) : ~m[j].v.imported}}

\* C10: when _writeFiles completes, each interface and each dictionary that
\* is not imported has been written exactly once, to <outputDir>/<name>.js,
\* and nothing has been written for an imported entry or for a typedef.
C10_EmissionCoverage ==
    pc = "done" =>
        /\ \A e \in OwnEntries(ctx.interfaces) :
              Cardinality({i \in 1..Len(TypeWrites) :
                  TypeWrites[i] = [path |-> PathJoin(OutputDir, e.name \o ".js"),
                                   kind |-> "interface", name |-> e.name]}) = 1
        /\ \A e \in OwnEntries(ctx.dictionaries) :
              Cardinality({i \in 1..Len(TypeWrites) :
                  TypeWrites[i] = [path |-> PathJoin(OutputDir, e.name \o ".js"),
                                   kind |-> "dictionary", name |-> e.name]}) = 1
        /\ \A i \in 1..Len(TypeWrites) :
              \/ /\ TypeWrites[i].kind = "interface"
                 /\ \E e \in OwnEntries(ctx.interfaces) : e.name = TypeWrites[i].name
              \/ /\ TypeWrites[i].kind = "dictionary"
                 /\ \E e \in OwnEntries(ctx.dictionaries) : e.name = TypeWrites[i].name
        /\ Len(TypeWrites) = Cardinality(OwnEntries(ctx.interfaces))
                               + Cardinality(OwnEntries(ctx.dictionaries))

\* an own interface written next to an imported dictionary and a typedef
C10_Witness ==
    /\ pc = "done"
    /\ MapHas(ctx.typedefs, "Alias")
    /\ MapHas(ctx.dictionaries, "Foo") /\ MapGet(ctx.dictionaries, "Foo").imported
    /\ MapHas(ctx.interfaces, "Foo") /\ ~MapGet(ctx.interfaces, "Foo").imported
    /\ Len(TypeWrites) = 1
    /\ TypeWrites[1].path = "out/Foo.js"

----------------------------------------------------------------------------
(* C8 *)

CollectFailures == {"stat", "readdir", "descriptor"}

ParseFailures == {"SyntaxError", "Error", "TypeError"}

WriteFailures == {"readUtils", "write", "render"}

\* the phase generate has reached: 0 none, 1 collection, 2 reading,
\* 3 _parse, 4 _writeFiles
Reached ==
    CASE pc = "idle" -> 0
      [] pc = "collect" \/ (pc = "rejected" /\ failure \in CollectFailures) -> 1
      [] pc = "read" \/ (pc = "rejected" /\ failure = "read") -> 2
      [] pc \in {"pass1", "pass2"}
           \/ (pc = "rejected" /\ failure \in ParseFailures) -> 3
      [] OTHER -> 4

SomeFailed(ps) == \E i \in 1..Len(ps) : ps[i].st = "failed"

\* C8: reading starts only when every collection operation has completed,
\* _parse only when every read has completed, _writeFiles only when _parse
\* has returned; when an operation of a phase fails, generate rejects and no
\* later phase starts.
C8_PhaseBarrier ==
    /\ Reached >= 2 => AllResolved(tasks)
    /\ Reached >= 3 => Len(reads) = Len(files) /\ AllResolved(reads)
    /\ Reached >= 4 =>
          LET r == ParseOf(contents, options.suppressErrors)
          IN r.thrown = "none" /\ r.ctx = ctx
    /\ Reached < 2 => reads = <<>>
    /\ Reached < 3 => contents = <<>> /\ ctx = ContextInitialize
    /\ Reached < 4 => written = <<>>
    /\ SomeFailed(tasks) =>
          pc = "rejected" /\ failure \in CollectFailures
    /\ SomeFailed(reads) => pc = "rejected" /\ failure = "read"
    /\ failure \in ParseFailures => pc = "rejected"

\* a collection operation failed, another completed after that, and
\* nothing was read
C8_Witness ==
    /\ Len(tasks) = 2
    /\ tasks[1].st = "failed"
    /\ tasks[2].st = "done"
    /\ files # <<>>
    /\ pc = "rejected"
    /\ reads = <<>>

----------------------------------------------------------------------------
(* C9 *)

\* C9: when a stat, a readdir, a descriptor read, a document read or a model
\* error of _parse fails the build, no output file has been written.
C9_NoPartialOutput ==
    (\/ failure \in CollectFailures \cup {"read"} \cup ModelErrors
     \/ SomeFailed(tasks)
     \/ SomeFailed(reads)) => written = <<>>

\* a document read failed next to one that succeeded
C9_Witness ==
    /\ failure = "read"
    /\ Len(reads) = 2
    /\ reads[1].st = "done"
    /\ reads[2].st = "failed"
    /\ written = <<>>

-----------------------------------------------------------------------------
(* C11 *)

\* the keys of the four maps of the registry, in insertion order
RegistryKeys(c) ==
    [m \in {"interfaces", "dictionaries", "typedefs", "customTypes"} |->
        [i \in 1..Len(c[m]) |-> c[m][i].k]]

\* C11: a step of pass 2 adds no key to and removes no key from interfaces,
\* dictionaries, typedefs or customTypes, and once _parse has returned no
\* later step of generate adds, removes or replaces a key of these maps.
C11_RegistryFrozen ==
    [][/\ pc = "pass2" => RegistryKeys(ctx') = RegistryKeys(ctx)
       /\ ParseReturned => ctx' = ctx]_vars

\* pass 2 merged a partial into Foo and skipped another one under
\* suppressErrors, and generate went on to write every file
C11_Witness ==
    /\ pc = "done"
    /\ options.suppressErrors
    /\ \E p \in Positions : UnmatchedPartial(InstrAt(p))
    /\ MapHas(ctx.interfaces, "Foo")
    /\ MembersOf(ctx.interfaces, "Foo") = <<"x", "y">>
    /\ written # <<>>

-----------------------------------------------------------------------------
(* C12 *)

\* how many times the entry e occurs in files
Occurrences(e) == Cardinality({i \in 1..Len(files) : files[i] = e})

\* the entries one source stands for: one per name of the directory that ends
\* in ".idl", or the path itself when it is no directory
EntriesOfSource(src) ==
    IF IsDirectory(src.idlPath)
    THEN {[idlPath |-> PathJoin(src.idlPath, n.base \o n.ext),
           impl |-> src.impl, genPath |-> Undefined] :
             n \in {FolderContents(src.idlPath)[i] :
                       i \in {j \in 1..Len(FolderContents(src.idlPath)) :
                                FolderContents(src.idlPath)[j].ext = ".idl"}}}
    ELSE {[idlPath |-> src.idlPath, impl |-> src.impl, genPath |-> Undefined]}

\* the coroutines of sources that have resolved
ResolvedSources == {t \in 1..Len(tasks) :
                      tasks[t].kind = "source" /\ tasks[t].st = "done"}

\* C12: a source that is a directory yields exactly one entry per name
\* directly in it that ends in ".idl", each with the impl of the source, and
\* none for any other name; a source that is no directory yields exactly
\* one entry, whatever its extension.
C12_DirectoryExpansion ==
    LET resolved == ResolvedSources
        entries == [t \in resolved |-> EntriesOfSource(tasks[t].src)]
        expected == UNION {entries[t] : t \in resolved}
        pushed == {files[i] : i \in {j \in 1..Len(files) :
                                        files[j].genPath = Undefined}}
    IN \A e \in expected \cup pushed :
          Occurrences(e) = Cardinality({t \in resolved : e \in entries[t]})

\* the directory idl (b.idl and notes.txt) and the file README.md have both
\* been resolved, and _collectSources returned
C12_Witness ==
    /\ pc = "read"
    /\ \E t \in ResolvedSources : tasks[t].src.idlPath = "idl"
    /\ \E t \in ResolvedSources : tasks[t].src.idlPath = "README.md"
    /\ Occurrences([idlPath |-> "idl/b.idl", impl |-> "impl",
                    genPath |-> Undefined]) = 1
    /\ Occurrences([idlPath |-> "README.md", impl |-> "impl",
                    genPath |-> Undefined]) = 1
    /\ \A i \in 1..Len(files) : files[i].idlPath # "idl/notes.txt"

-----------------------------------------------------------------------------
(* C13 *)

\* the coroutines of modules that have resolved
ResolvedModules == {t \in 1..Len(tasks) :
                      tasks[t].kind = "module" /\ tasks[t].st = "done"}

\* the entries the module of coroutine t stands for: none without a
\* webidl2js section, else one per listed IDL path
EntriesOfModule(t) ==
    LET pkg == PackageJson(tasks[t].packageJSON)
    IN IF ~pkg.hasWebidl2js THEN {}
       ELSE {[idlPath |-> PathResolve(Dirname(tasks[t].packageJSON),
                                      pkg.webidl2js.idl[i]),
              impl |-> Undefined,
              genPath |-> PathJoin(tasks[t].modName, pkg.webidl2js.interface)] :
                i \in 1..Len(pkg.webidl2js.idl)}

\* C13: a module whose descriptor has no webidl2js section yields no entry
\* and no error; a module whose descriptor has one yields exactly one entry
\* per listed IDL path, each with the genPath of the module and no impl.
C13_ModuleContributions ==
    LET resolved == ResolvedModules
        entries == [t \in resolved |-> EntriesOfModule(t)]
        expected == UNION {entries[t] : t \in resolved}
        pushed == {files[i] : i \in {j \in 1..Len(files) :
                                        files[j].genPath # Undefined
                                        \/ files[j].impl = Undefined}}
    IN /\ \A e \in expected \cup pushed :
             Occurrences(e) = Cardinality({t \in resolved : e \in entries[t]})
       /\ (\A t \in 1..Len(tasks) : tasks[t].st = "done") =>
             failure \notin CollectFailures
       /\ failure = "descriptor" =>
             \E t \in 1..Len(tasks) :
                 tasks[t].kind = "module" /\ tasks[t].st = "failed"

\* both the module mod (with a section listing m.idl) and the module plain
\* (without one) have been resolved, and _collectSources returned
C13_Witness ==
    /\ pc = "read"
    /\ \E t \in ResolvedModules : tasks[t].modName = "plain"
    /\ \E t \in ResolvedModules : tasks[t].modName = "mod"
    /\ files = <<[idlPath |-> "node_modules/mod/m.idl", impl |-> Undefined,
                  genPath |-> "mod/gen"]>>

-----------------------------------------------------------------------------
(* C14 *)

\* C14: in whatever order the reads complete, _readFiles returns a list as
\* long as files whose element i holds the content read from
\* files[i].idlPath together with files[i].impl and files[i].genPath.
C14_PositionalPairing ==
    Reached >= 3 =>
        /\ Len(contents) = Len(files)
        /\ \A i \in 1..Len(files) :
              contents[i] = [idlContent |-> FileText(files[i].idlPath),
                             impl |-> files[i].impl,
                             genPath |-> files[i].genPath]

\* _readFiles returned after the read of the second file completed before
\* the read of the first one, and the two files differ in text and in
\* provenance
C14_Witness ==
    /\ pc = "pass1"
    /\ Len(files) >= 2
    /\ reads[2].at < reads[1].at
    /\ contents[1].idlContent # contents[2].idlContent
    /\ contents[1].impl # contents[2].impl
    /\ contents[1].genPath # contents[2].genPath

-----------------------------------------------------------------------------
(* C15 *)

\* some argument of the call is not a string
BadArgument(call) == \E i \in 1..Len(call.args) : call.args[i] = NotString

-----------------------------------------------------------------------------
(* C16 *)

\* the instruction at p is the only full interface of its name, and no
\* partial interface and no implements statement targets that name
DeclaredOnceAndAlone(p) ==
    /\ IsFull(InstrAt(p), "interface")
    /\ \A q \in Positions \ {p} :
          LET ins == InstrAt(q)
          IN /\ ins.type = "interface" => ins.name # InstrAt(p).name
             /\ ins.type = "implements" => ins.target # InstrAt(p).name

\* C16: an interface with exactly one full declaration, no partial
\* declaration and no implements statement targeting it comes out of _parse
\* with the members and the extAttrs of that declaration, whatever the other
\* instructions are.
C16_RoundTrip ==
    ParseReturned =>
        \A p \in Positions :
            DeclaredOnceAndAlone(p) =>
                /\ MapHas(ctx.interfaces, InstrAt(p).name)
                /\ MembersOf(ctx.interfaces, InstrAt(p).name) = InstrAt(p).members
                /\ ExtAttrsOf(ctx.interfaces, InstrAt(p).name) = InstrAt(p).extAttrs

\* strict _parse returned on interface Foo next to a dictionary Foo and a
\* partial dictionary Foo, which merged into the dictionary only
C16_Witness ==
    /\ ParseReturned
    /\ Strict
    /\ \E p \in Positions : DeclaredOnceAndAlone(p) /\ InstrAt(p) = IFoo
    /\ \E p \in Positions : InstrAt(p) = PDFoo
    /\ MapHas(ctx.dictionaries, "Foo")
    /\ MembersOf(ctx.dictionaries, "Foo") = <<"d", "e">>
    /\ MembersOf(ctx.interfaces, "Foo") = <<"x">>

-----------------------------------------------------------------------------
(* C17 *)

\* two full declarations (interface or dictionary) share a name
DuplicateFull ==
    \E p, q \in Positions :
        /\ p # q
        /\ InstrAt(p).type \in {"interface", "dictionary"}
        /\ InstrAt(q).type \in {"interface", "dictionary"}
        /\ ~InstrAt(p).partial
        /\ ~InstrAt(q).partial
        /\ InstrAt(p).name = InstrAt(q).name

\* C17: in strict mode _parse raises a fatal error when pass 1 meets a full
\* interface or dictionary whose name is already in customTypes; only in
\* relaxed mode may the later declaration replace the earlier one.
C17_DuplicateRejected ==
    Strict /\ DuplicateFull /\ ParseEnded => failure \in ParseFailures

-----------------------------------------------------------------------------
(* C18 *)

\* the instructions handed to _parse, in the order both passes visit them
Work ==
    LET pairs == Instructions(Parsed(contents))
    IN [i \in 1..Len(pairs) |-> pairs[i].instruction]

\* the blocks (members or extAttrs) of the partials of (type, name) among
\* the instructions w, one after the other in the order of w
RECURSIVE Blocks(_, _, _, _)
Blocks(w, type, name, field) ==
    IF w = <<>> THEN <<>>
    ELSE (IF IsPartial(Head(w), type) /\ Head(w).name = name
          THEN Head(w)[field] ELSE <<>>)
         \o Blocks(Tail(w), type, name, field)

\* the registry map of a type
MapOf(type) == IF type = "interface" THEN ctx.interfaces ELSE ctx.dictionaries

\* the full declarations of (type, name) among the instructions w
FullsOf(w, type, name) ==
    {i \in 1..Len(w) : IsFull(w[i], type) /\ w[i].name = name}

\* C18: when several partial interfaces (or partial dictionaries) of one
\* name are processed, the member list of that name ends up as the members
\* of the full declaration followed by the members of each partial as one
\* contiguous block, the blocks in the order pass 2 processed the partials;
\* the extAttrs list is built the same way.
C18_PartialBlocksInOrder ==
    ParseReturned =>
        LET w == Work
        IN \A type \in {"interface", "dictionary"} :
             \A name \in {w[i].name : i \in 1..Len(w)} :
                Cardinality(FullsOf(w, type, name)) = 1 =>
                    LET full == w[CHOOSE i \in FullsOf(w, type, name) : TRUE]
                    IN /\ MembersOf(MapOf(type), name) =
                            full.members \o Blocks(w, type, name, "members")
                       /\ ExtAttrsOf(MapOf(type), name) =
                            full.extAttrs \o Blocks(w, type, name, "extAttrs")

\* the two-member partial of Foo was processed before the one-member
\* partial, the full declaration standing between them
C18_Witness ==
    /\ ParseReturned
    /\ Work = <<PIFoo2, IFoo, PIFoo>>
    /\ MembersOf(ctx.interfaces, "Foo") = <<"x", "p", "q", "y">>
    /\ ExtAttrsOf(ctx.interfaces, "Foo") =
          <<"Exposed", "Global", "Replaceable", "Unforgeable">>

-----------------------------------------------------------------------------
(* C19 *)

\* the documents without their typedef instructions
WithoutTypedefs ==
    [i \in 1..Len(contents) |->
        [contents[i] EXCEPT !.idlContent.decls =
            SelectSeq(@, LAMBDA ins : ins.type # "typedef")]]

\* C19: a typedef instruction adds its name to typedefs only: _parse ends as
\* it does on the documents without their typedefs, with the same
\* customTypes, interfaces and dictionaries, so a typedef that shares its
\* name with an interface or dictionary raises no error and leaves the kind
\* of that name in customTypes as it is.
C19_TypedefsOutOfIndex ==
    ParseEnded =>
        LET r == ParseOf(WithoutTypedefs, options.suppressErrors)
        IN /\ ParseReturned <=> r.thrown = "none"
           /\ ~ParseReturned => failure = r.thrown
           /\ ParseReturned =>
                 /\ ctx.customTypes = r.ctx.customTypes
                 /\ ctx.interfaces = r.ctx.interfaces
                 /\ ctx.dictionaries = r.ctx.dictionaries
                 /\ MapKeys(ctx.typedefs) =
                       {InstrAt(p).name :
                          p \in {q \in Positions : InstrAt(q).type = "typedef"}}

\* strict _parse returned on a typedef Foo that follows an interface Foo
C19_Witness ==
    /\ ParseReturned
    /\ Strict
    /\ \E p, q \in Positions :
          /\ InstrAt(p) = IFoo
          /\ InstrAt(q) = TFoo
          /\ p[1] < q[1] \/ (p[1] = q[1] /\ p[2] < q[2])
    /\ MapKeys(ctx.typedefs) = {"Foo"}
    /\ MapHas(ctx.interfaces, "Foo")
    /\ KindOf("Foo") = "interface"

-----------------------------------------------------------------------------
(* C20 *)

\* the entries the coroutine t pushes when it resolves
FilesOf(t) ==
    IF tasks[t].kind = "module"
    THEN ModuleFiles(tasks[t].modName, tasks[t].packageJSON)
    ELSE IF IsDirectory(tasks[t].src.idlPath) THEN FolderFiles(tasks[t].src)
    ELSE <<[idlPath |-> tasks[t].src.idlPath, impl |-> tasks[t].src.impl,
            genPath |-> Undefined]>>

\* the files of the interleaving in which the coroutines from t on complete
\* one after the other, in the order they were started
RECURSIVE FilesInStartOrder(_)
FilesInStartOrder(t) ==
    IF t > Len(tasks) THEN <<>> ELSE FilesOf(t) \o FilesInStartOrder(t + 1)

\* the documents of that interleaving
DocumentsInStartOrder ==
    LET ref == FilesInStartOrder(1)
    IN Zipped([i \in 1..Len(ref) |-> FileText(ref[i].idlPath)], ref)

\* no two full declarations of the documents cs share a name
NoSharedFullName(cs) ==
    LET w == Instructions(Parsed(cs))
    IN \A i, j \in 1..Len(w) :
          /\ i # j
          /\ ~w[i].instruction.partial
          /\ ~w[j].instruction.partial
          /\ {w[i].instruction.type, w[j].instruction.type}
                \subseteq {"interface", "dictionary", "typedef"}
          => w[i].instruction.name # w[j].instruction.name

\* the elements of a sequence
Elements(seq) == {seq[i] : i \in 1..Len(seq)}

\* C20: for given sources and modules, no two full declarations sharing a
\* name, every completion order of the operations of _collectSources gives
\* the files of the start-order interleaving, each as often, and _parse then
\* ends as it does there, with the same keys in interfaces, dictionaries,
\* typedefs and customTypes, the same kind per name and the same entry per
\* name up to the order of its members and extAttrs.
C20_InterleavingDeterminism ==
    LET ref == FilesInStartOrder(1)
        docs == DocumentsInStartOrder
        valid == \A i \in 1..Len(docs) : docs[i].idlContent.valid
    IN /\ Reached >= 2 =>
             /\ Len(files) = Len(ref)
             /\ \A e \in Elements(ref) \cup Elements(files) :
                   Occurrences(e) =
                       Cardinality({i \in 1..Len(ref) : ref[i] = e})
       /\ ParseEnded => (failure = "SyntaxError" <=> ~valid)
       /\ ParseEnded /\ valid /\ NoSharedFullName(docs) =>
             LET r == ParseOf(docs, options.suppressErrors)
             IN /\ ParseReturned <=> r.thrown = "none"
                /\ ParseReturned =>
                      /\ \A m \in {"interfaces", "dictionaries", "typedefs",
                                    "customTypes"} :
                            MapKeys(ctx[m]) = MapKeys(r.ctx[m])
                      /\ \A n \in MapKeys(ctx.customTypes) :
                            MapGet(ctx.customTypes, n) = MapGet(r.ctx.customTypes, n)
                      /\ \A m \in {"interfaces", "dictionaries"} :
                            \A n \in MapKeys(ctx[m]) :
                               /\ Elements(MembersOf(ctx[m], n)) =
                                     Elements(MembersOf(r.ctx[m], n))
                               /\ Elements(ExtAttrsOf(ctx[m], n)) =
                                     Elements(ExtAttrsOf(r.ctx[m], n))
                               /\ MapGet(ctx[m], n).path = MapGet(r.ctx[m], n).path
                               /\ MapGet(ctx[m], n).imported =
                                     MapGet(r.ctx[m], n).imported

\* strict _parse returned after the module, added last, resolved first: its
\* implements statement was read before the interface Foo it targets
C20_Witness ==
    /\ ParseReturned
    /\ Strict
    /\ Len(files) = 2
    /\ files # FilesInStartOrder(1)
    /\ files[1].genPath # Undefined
    /\ tasks[1].kind = "source"
    /\ NoSharedFullName(DocumentsInStartOrder)
    /\ MapKeys(ctx.interfaces) = {"Foo", "Bar"}
    /\ MapGet(ctx.interfaces, "Foo").mixins = <<"Bar">>

====
